---- MODULE Spec2Model ----
(***************************************************************************)
(* Crosspoint (src/src/App.tsx): the App component's state, its two        *)
(* effects (bootstrap + realtime listeners), its handlers, and the         *)
(* ActiveQuiz component that App declares inside its own body.             *)
(*                                                                         *)
(* One step of the model is one JavaScript task: a handler, a callback of  *)
(* the identity provider or of the document store, a timer callback, or    *)
(* the continuation after an await, together with the React render its     *)
(* state updates cause and the effects and cleanups of that render.        *)
(***************************************************************************)
EXTENDS Integers, Sequences, FiniteSets, TLC

\* ------------------------------------------------------------------ bounds
\* Verification writes (setDoc) issued in one run.
MaxVerWrites == 2
\* Questions posted (addDoc) in one run, stored or awaiting their result.
MaxPosts == 1
\* Questions posted in one run of the feed specification: one more than the feed holds.
MaxFeedPosts == 51
\* addDoc calls awaiting their result at once in the feed specification.
MaxPendingPosts == 2

\* --------------------------------------------------------------- constants
\* PASSING_SCORE_PERCENTAGE = 0.7, in tenths (the comparison is done on integers).
PASSING_SCORE_PERCENTAGE == 7
\* limit(50) of the questions query.
FEED_LIMIT == 50

Null == "null"

\* QUIZ_DATA: category -> ordered questions (options and answer as in the source).
QUIZ_DATA ==
  ( "Physics" :>
      << [ options |-> << "Huygens' Principle",
                          "Principle of Conservation of Momentum",
                          "Archimedes' Principle",
                          "Bernoulli's Principle" >>,
           answer  |-> "Principle of Conservation of Momentum" ],
         [ options |-> << "Volt", "Ohm", "Ampere", "Watt" >>,
           answer  |-> "Ampere" ],
         [ options |-> << "Diffraction", "Refraction", "Polarization", "Interference" >>,
           answer  |-> "Refraction" ] >> )
  @@
  ( "Web Development" :>
      << [ options |-> << "padding", "margin", "border-width", "inset" >>,
           answer  |-> "margin" ],
         [ options |-> << "props", "state", "context", "refs" >>,
           answer  |-> "state" ] >> )
  @@
  ( "Financial Modeling" :>
      << [ options |-> << "Net Profit Variance", "Nominal Price Value",
                          "Net Present Value", "New Project Valuation" >>,
           answer  |-> "Net Present Value" ] >> )

\* Object.keys(QUIZ_DATA)
Categories == DOMAIN QUIZ_DATA

\* The <select> of PostQuestionView: the quiz categories and "General".
PostCategories == Categories \cup {"General"}

\* The three settings the bootstrap validates.
RequiredKeys == {"apiKey", "projectId", "appId"}

\* What the identity provider may notify: a signed-in user, or none.
Users == { [uid |-> "u1", displayName |-> Null], [uid |-> "u2", displayName |-> "Ann"] }

\* The user of the runs in which one identity signs in.
SignInUsers == { u \in Users : u.uid = "u1" }

NoUser == [uid |-> Null, displayName |-> Null]

\* The sign-in failure codes the bootstrap maps to messages, and one it does not.
AuthErrorCodes ==
  { "auth/operation-not-allowed", "auth/unauthorized-domain",
    "auth/operation-not-supported-in-this-environment",
    "auth/invalid-custom-token", "auth/network-request-failed" }

\* Categories the user starts a quiz in: the three-question one and the one-question one.
QuizCategoryInputs == { "Physics", "Financial Modeling" }

\* Drafts of the post form: sequences of characters.
Titles == { <<>>, <<"t">> }

Bodies == { <<>>, <<" ">>, <<"b">> }

\* Categories the post form is submitted with.
PostCategoryInputs == { "General" }

\* ------------------------------------------------------------ pure helpers
Elements(s) == { s[i] : i \in 1..Len(s) }

\* Array.prototype.includes
Includes(s, x) == x \in Elements(s)

RECURSIVE DedupFrom(_, _)
DedupFrom(s, seen) ==
  IF s = <<>> THEN <<>>
  ELSE IF Head(s) \in seen THEN DedupFrom(Tail(s), seen)
       ELSE <<Head(s)>> \o DedupFrom(Tail(s), seen \cup {Head(s)})

\* Array.from(new Set(s)): first occurrences, in order.
Dedup(s) == DedupFrom(s, {})

NoDuplicates(s) == \A i, j \in 1..Len(s) : i # j => s[i] # s[j]

\* Mutant of Reverse: the order is kept.
ReverseNot(s) == s

RECURSIVE Reverse(_)
Reverse(s) == IF s = <<>> THEN <<>> ELSE Reverse(Tail(s)) \o <<Head(s)>>

Take(s, n) == SubSeq(s, 1, IF Len(s) < n THEN Len(s) ELSE n)

RECURSIVE TrimStart(_)
TrimStart(s) == IF s # <<>> /\ Head(s) = " " THEN TrimStart(Tail(s)) ELSE s

\* Mutant of Trim: nothing is trimmed.
TrimNothing(s) == s

\* String.prototype.trim
Trim(s) == Reverse(TrimStart(Reverse(TrimStart(s))))


\* ------------------------------------------------------------------- state
VARIABLES
  firebaseConfig,      \* the required settings that the environment gives a value
  boot,                \* where the bootstrap effect stands: start, signingIn, observing, halted
  db,                  \* useState db: whether the Firestore handle is set
  userId,              \* useState userId
  displayName,         \* useState displayName
  isLoading,           \* useState isLoading
  appState,            \* useState appState: feed, post, quiz
  activeQuizCategory,  \* useState activeQuizCategory
  questions,           \* useState questions: the client's feed view
  userVerifications,   \* useState userVerifications: array of 0 or 1 verification docs
  error,               \* useState error
  qListeners,          \* the uids for which a questions listener is attached and alive
  qDirty,              \* the questions listener has a snapshot it has not delivered yet
  vListeners,          \* the uids for which a verification listener is attached and alive
  vDirty,              \* the verification listener has a snapshot it has not delivered yet
  storeQuestions,      \* the questions collection, in creation order
  storeVer,            \* the expert_verifications collection: uid -> document
  pendingPosts,        \* addDoc calls awaiting their result, in issue order
  pendingVerWrites,    \* setDoc calls awaiting their result, in issue order
  verIssued,           \* number of setDoc calls issued so far
  quiz,                \* the mounted ActiveQuiz instance's state, or NoQuiz
  timers,              \* window timers armed by handleNext and neither fired nor cleared,
                       \* each with the fate of the instance that armed it
  reported,            \* the (category, score, total) this step handed to handleQuizComplete
  passedQuizzes,       \* uid -> the categories whose quiz that user completed with a
                       \* passing ratio so far (history)
  lastOp,              \* what ran last among the inputs to ActiveQuiz and the handlers
                       \* and callbacks that made App render ("app" unless named), and
                       \* the timers its unmount cleanup cleared
  appMounted           \* whether App is mounted

appVars ==
  << db, userId, displayName, isLoading, appState, activeQuizCategory,
     questions, userVerifications, error >>

vars ==
  << firebaseConfig, boot, db, userId, displayName, isLoading, appState, activeQuizCategory,
     questions, userVerifications, error, qListeners, qDirty, vListeners, vDirty,
     storeQuestions, storeVer, pendingPosts, pendingVerWrites, verIssued,
     quiz, timers, reported, passedQuizzes, lastOp, appMounted >>

Uids == { u.uid : u \in Users }

NoDoc == [exists |-> FALSE]

NoQuiz == [mounted |-> FALSE]

NoReport == [made |-> FALSE]

\* useState initial values of App and the empty collections.
Init ==
  /\ firebaseConfig \in SUBSET RequiredKeys
  /\ boot = "start"
  /\ db = FALSE
  /\ userId = Null
  /\ displayName = Null
  /\ isLoading = TRUE
  /\ appState = "feed"
  /\ activeQuizCategory = Null
  /\ questions = <<>>
  /\ userVerifications = <<>>
  /\ error = Null
  /\ qListeners = {}
  /\ qDirty = FALSE
  /\ vListeners = {}
  /\ vDirty = FALSE
  /\ storeQuestions = <<>>
  /\ storeVer = [u \in Uids |-> NoDoc]
  /\ pendingPosts = <<>>
  /\ pendingVerWrites = <<>>
  /\ verIssued = 0
  /\ quiz = NoQuiz
  /\ timers = {}
  /\ reported = NoReport
  /\ passedQuizzes = [u \in Uids |-> {}]
  /\ lastOp = [op |-> "app", cleared |-> {}]
  /\ appMounted = TRUE

\* --------------------------------------------------- expressions of the code
\* The views the selector names.
Views == { "feed", "post", "quiz" }

\* Mutant of ScreenOf: a set error does not replace the view.
ScreenIgnoringError(loading, err, view) == IF loading THEN "loading" ELSE view

\* What App's render returns: the loading screen, else the error screen, else the
\* header with the view that renderContent picks (the feed for any other value).
ScreenOf(loading, err, view) ==
  IF loading THEN "loading"
  ELSE IF err # Null THEN "error"
  ELSE IF view \in { "post", "quiz" } THEN view ELSE "feed"

\* The loading screen and the error screen replace the whole UI.
UIShown == appMounted /\ ScreenOf(isLoading, error, appState) \in Views

\* QuizCategorySelectionView renders ActiveQuiz when a category is active.
QuizShown == UIShown /\ appState = "quiz" /\ activeQuizCategory \in Categories

\* Mutant of CurrentUserVerifications: the first record, whatever its id.
CurrentUserVerificationsAny(uvs, uid) ==
  IF uvs # <<>>
  THEN uvs[1]
  ELSE [id |-> IF uid # Null THEN uid ELSE "unknown", verifiedCategories |-> <<>>]

\* useMemo currentUserVerifications: the doc whose id is userId, else an empty one.
CurrentUserVerifications(uvs, uid) ==
  IF \E i \in 1..Len(uvs) : uvs[i].id = uid
  THEN uvs[CHOOSE i \in 1..Len(uvs) :
             uvs[i].id = uid /\ \A j \in 1..(i - 1) : uvs[j].id # uid]
  ELSE [id |-> IF uid # Null THEN uid ELSE "unknown", verifiedCategories |-> <<>>]

\* Mutant of IsExpert: every card offers Answer.
IsExpertAlways(question) == TRUE

\* QuestionCard: isExpert, on which the Answer button is rendered.
IsExpert(question) ==
  Includes(CurrentUserVerifications(userVerifications, userId).verifiedCategories,
           question.category)

\* Mutant of Passed: the threshold taken as 0.6.
PassedAtSixty(score, total) == score * 10 >= (PASSING_SCORE_PERCENTAGE - 1) * total

\* score / total >= PASSING_SCORE_PERCENTAGE
Passed(score, total) == score * 10 >= PASSING_SCORE_PERCENTAGE * total

\* Mutant of NewCategories: the category is appended without the Set.
NewCategoriesAppended(existing, category) == existing \o << category >>

\* Array.from(new Set([...existing, category]))
NewCategories(existing, category) == Dedup(existing \o <<category>>)

\* setDoc(ref, data, {merge: true}): the fields of data replace those of the
\* document, its other fields stay, and an absent document is created.
SetDocMerge(old, data) ==
  [f \in (DOMAIN old \cup DOMAIN data) \ {"exists"} |->
     IF f \in DOMAIN data THEN data[f] ELSE old[f]]

\* The verifiedCategories array a stored document holds.
StoredCategories(d) == IF d = NoDoc THEN <<>> ELSE d.verifiedCategories

\* user.displayName || `User-${user.uid.substring(0, 8)}` (uids here are shorter than 8)
DisplayNameOf(user) ==
  IF user.displayName # Null THEN user.displayName ELSE "User-" \o user.uid

RequiredKeysSeq == << "apiKey", "projectId", "appId" >>

RECURSIVE Join(_)
Join(s) ==
  IF s = <<>> THEN ""
  ELSE IF Len(s) = 1 THEN s[1] ELSE s[1] \o ", " \o Join(Tail(s))

\* Mutant of MissingKeys: the last missing key is left out.
MissingKeysButLast(present) ==
  LET missing == SelectSeq(RequiredKeysSeq, LAMBDA k : k \notin present)
  IN  IF Len(missing) > 1 THEN SubSeq(missing, 1, Len(missing) - 1) ELSE missing

\* Object.entries(...).filter(([, v]) => !v).map(([k]) => k)
MissingKeys(present) == SelectSeq(RequiredKeysSeq, LAMBDA k : k \notin present)

ConfigErrorMessage(present) ==
  "Firebase config missing: " \o Join(MissingKeys(present))
    \o ". Check your .env and restart the dev server."

\* Mutant of AuthErrorMessage: a failed sign-in sets no message.
AuthErrorMessageNone(code) == Null

AuthErrorMessage(code) ==
  IF code = "auth/operation-not-allowed"
  THEN "Auth error: Anonymous sign-in is disabled."
  ELSE IF code = "auth/unauthorized-domain"
  THEN "Auth error: Unauthorized domain."
  ELSE IF code = "auth/operation-not-supported-in-this-environment"
  THEN "Auth error: Storage blocked in this environment."
  ELSE IF code = "auth/invalid-custom-token"
  THEN "Auth error: Invalid custom token."
  ELSE "Auth error: " \o code

FeedErrorMessage == "Failed to load questions from database."

PostErrorMessage ==
  "Could not post question. Check network connection or database permissions."

VerifyErrorMessage(category) == "Failed to verify expertise in " \o category \o "."

\* ------------------------------------------------------------- ActiveQuiz
\* useState / useRef initial values of a freshly mounted ActiveQuiz.
FreshQuiz(category) ==
  [ mounted |-> TRUE, category |-> category,
    currentQuestionIndex |-> 0, score |-> 0, selectedOption |-> Null,
    showResult |-> FALSE, pendingAdvance |-> FALSE,
    timerRef |-> 0,      \* 0: null; n: the n-th timer this instance armed
    submits |-> <<>> ]   \* the indices handleNext accepted, in order

QuizDataOf(q) == QUIZ_DATA[q.category]

\* quizData[currentQuestionIndex]
CurrentQuestion(q) == QuizDataOf(q)[q.currentQuestionIndex + 1]

\* quizData.length
TotalQuestions(quizData) == Len(quizData)

\* currentQuestionIndex === totalQuestions - 1
IsLastQuestion(q) == q.currentQuestionIndex = TotalQuestions(QuizDataOf(q)) - 1

\* Mutant of AnswerSelectIgnored: a selection is accepted after the reveal too.
AnswerSelectNeverIgnored(q) == FALSE

\* handleAnswerSelect: if (showResult) return
AnswerSelectIgnored(q) == q.showResult

\* handleNext: if (!selectedOption || showResult || pendingAdvance) return
NextIgnored(q) == q.selectedOption = Null \/ q.showResult \/ q.pendingAdvance

\* selectedOption === currentQuestion.answer
IsCorrect(q) == q.selectedOption = CurrentQuestion(q).answer

\* Mutant of FinalScore: every answer counts.
FinalScoreAlways(score, isCorrect) == score + 1

\* score + (isCorrect ? 1 : 0)
FinalScore(score, isCorrect) == score + (IF isCorrect THEN 1 ELSE 0)

\* Mutant of ClearTimeout: the timer is left armed.
ClearTimeoutNoop(ts, id) == ts

\* window.clearTimeout(id), id a timer of the mounted instance.
ClearTimeout(ts, id) == { t \in ts : ~(t.owner = "mounted" /\ t.id = id) }

\* A timer that outlives the instance that armed it: its owner is gone, by the
\* Cancel Quiz button ("cancelled") or by any other render of App ("unmounted").
Orphaned(t, how) == IF t.owner = "mounted" THEN [t EXCEPT !.owner = how] ELSE t

\* Mutant of UnmountCleanup: ActiveQuiz has no cleanup effect.
UnmountCleanupNone(q, ts, how) == { Orphaned(t, how) : t \in ts }

\* The unmount cleanup of ActiveQuiz: if (timerRef.current) clearTimeout(timerRef.current)
UnmountCleanup(q, ts, how) ==
  { Orphaned(t, how) :
      t \in IF q # NoQuiz /\ q.timerRef # 0 THEN ClearTimeout(ts, q.timerRef) ELSE ts }

\* ------------------------------------------------------------------ render
\* The inputs to ActiveQuiz that lastOp records even when App does not render.
QuizInputs == { "select", "selectIgnored", "next", "nextIgnored", "advance" }

\* The outcomes of a submit of the post form, which lastOp records as well.
SubmitInputs == { "submitBlank", "submitNoIdentity", "submit" }

\* App renders again when a state update changed a value (a freshly built array
\* always counts: force). ActiveQuiz and the views are declared inside App, so each
\* App render makes new component types: the mounted ActiveQuiz is unmounted (its
\* cleanup runs) and, if the quiz is still shown, a fresh one is mounted.
\* quizAfter / timersAfter: the instance and the timers as the handler left them.
Render(op, force, quizAfter, timersAfter) ==
  /\ UNCHANGED appMounted
  /\ IF force \/ appVars' # appVars
     THEN /\ quiz' = IF QuizShown' THEN FreshQuiz(activeQuizCategory') ELSE NoQuiz
          /\ timers' = UnmountCleanup(quizAfter, timersAfter,
                                      IF op = "cancel" THEN "cancelled" ELSE "unmounted")
          /\ lastOp' = [op |-> op,
                        cleared |-> { t \in timersAfter :
                                        t.owner = "mounted" /\ t \notin timers' }]
     ELSE /\ quiz' = quizAfter
          /\ timers' = timersAfter
          /\ lastOp' = IF op \in QuizInputs \cup SubmitInputs
                       THEN [op |-> op, cleared |-> {}] ELSE lastOp

\* What a run of the listeners effect attaches, one listener on each feed, for the db
\* and userId it runs with: nothing unless both are set.
Attached(d, uid) == IF d /\ uid # Null THEN {uid} ELSE {}

\* Mutant of ListenersCleanup: the cleanup releases nothing.
ListenersCleanupNone(subs) == subs

\* The cleanup of the listeners effect: unsubQuestions() / unsubVer() release the
\* listener that the last run attached.
ListenersCleanup(subs) == subs \ Attached(db, userId)

\* The listeners effect, deps [db, userId]: on a change the cleanup of the last run is
\* called and the effect runs again; a listener just attached has its first snapshot
\* to deliver.
ListenersEffect ==
  IF db' # db \/ userId' # userId
  THEN /\ qListeners' = ListenersCleanup(qListeners) \cup Attached(db', userId')
       /\ vListeners' = ListenersCleanup(vListeners) \cup Attached(db', userId')
       /\ qDirty' = (Attached(db', userId') # {})
       /\ vDirty' = (Attached(db', userId') # {})
  ELSE UNCHANGED << qListeners, vListeners, qDirty, vDirty >>

storeVars == << storeQuestions, storeVer, pendingPosts, pendingVerWrites, verIssued >>

listenerVars == << qListeners, qDirty, vListeners, vDirty >>

\* --------------------------------------------------------------- bootstrap
\* A required setting is missing: setError, setIsLoading(false), return.
BootConfigMissing ==
  /\ boot = "start"
  /\ MissingKeys(firebaseConfig) # <<>>
  /\ error' = ConfigErrorMessage(firebaseConfig)
  /\ isLoading' = FALSE
  /\ boot' = "halted"
  /\ UNCHANGED << db, userId, displayName, appState, activeQuizCategory,
                  questions, userVerifications >>
  /\ UNCHANGED << listenerVars, storeVars >>
  /\ reported' = NoReport
  /\ Render("app", FALSE, quiz, timers)
  /\ UNCHANGED << passedQuizzes, firebaseConfig >>

\* initializeApp / initializeAuth / setPersistence / getFirestore throws: outer catch.
BootInitError ==
  /\ boot = "start"
  /\ MissingKeys(firebaseConfig) = <<>>
  /\ error' = "Firebase init error: init-failed"
  /\ isLoading' = FALSE
  /\ boot' = "halted"
  /\ UNCHANGED << db, userId, displayName, appState, activeQuizCategory,
                  questions, userVerifications >>
  /\ UNCHANGED << listenerVars, storeVars >>
  /\ reported' = NoReport
  /\ Render("app", FALSE, quiz, timers)
  /\ UNCHANGED << passedQuizzes, firebaseConfig >>

\* All settings present and initialisation succeeds: setDb(firestore), sign-in starts.
BootInitOk ==
  /\ boot = "start"
  /\ MissingKeys(firebaseConfig) = <<>>
  /\ db' = TRUE
  /\ boot' = "signingIn"
  /\ UNCHANGED << userId, displayName, isLoading, appState, activeQuizCategory,
                  questions, userVerifications, error >>
  /\ ListenersEffect
  /\ UNCHANGED storeVars
  /\ reported' = NoReport
  /\ Render("app", FALSE, quiz, timers)
  /\ UNCHANGED << passedQuizzes, firebaseConfig >>

\* signInWithCustomToken / signInAnonymously rejects with a code.
SignInFail ==
  /\ boot = "signingIn"
  /\ \E code \in AuthErrorCodes : error' = AuthErrorMessage(code)
  /\ isLoading' = FALSE
  /\ boot' = "halted"
  /\ UNCHANGED << db, userId, displayName, appState, activeQuizCategory,
                  questions, userVerifications >>
  /\ UNCHANGED << listenerVars, storeVars >>
  /\ reported' = NoReport
  /\ Render("app", FALSE, quiz, timers)
  /\ UNCHANGED << passedQuizzes, firebaseConfig >>

\* Sign-in resolves: onAuthStateChanged attaches the observer.
SignInOk ==
  /\ boot = "signingIn"
  /\ boot' = "observing"
  /\ UNCHANGED appVars
  /\ UNCHANGED << listenerVars, storeVars >>
  /\ reported' = NoReport
  /\ Render("app", FALSE, quiz, timers)
  /\ UNCHANGED << passedQuizzes, firebaseConfig >>

\* Mutant of Notify: the callback without its setIsLoading(false).
NotifyKeepsLoading(users) ==
  /\ appMounted
  /\ boot = "observing"
  /\ \E user \in users \cup {NoUser} :
       IF user # NoUser
       THEN userId' = user.uid /\ displayName' = DisplayNameOf(user)
       ELSE userId' = Null /\ displayName' = Null
  /\ UNCHANGED << boot, db, isLoading, appState, activeQuizCategory, questions,
                  userVerifications, error >>
  /\ ListenersEffect
  /\ UNCHANGED storeVars
  /\ reported' = NoReport
  /\ Render("app", FALSE, quiz, timers)
  /\ UNCHANGED << passedQuizzes, firebaseConfig >>

\* The onAuthStateChanged callback, with one of the given users or with none.
Notify(users) ==
  /\ appMounted
  /\ boot = "observing"
  /\ \E user \in users \cup {NoUser} :
       IF user # NoUser
       THEN userId' = user.uid /\ displayName' = DisplayNameOf(user)
       ELSE userId' = Null /\ displayName' = Null
  /\ isLoading' = FALSE
  /\ UNCHANGED << boot, db, appState, activeQuizCategory, questions,
                  userVerifications, error >>
  /\ ListenersEffect
  /\ UNCHANGED storeVars
  /\ reported' = NoReport
  /\ Render("app", FALSE, quiz, timers)
  /\ UNCHANGED << passedQuizzes, firebaseConfig >>

AuthNotify == Notify(SignInUsers)

\* ------------------------------------------------------ realtime listeners
\* The query: orderBy('createdAt', 'desc'), limit(50).
FeedSnapshot(store) == Take(Reverse(store), FEED_LIMIT)

\* Mutant of SetQuestions: the snapshot is appended to the list.
SetQuestionsMerged(old, list) == old \o list

\* setQuestions(list): the list replaces the state value.
SetQuestions(old, list) == list

\* onSnapshot(q, next): setQuestions(list)
FeedDeliver ==
  /\ qListeners # {} /\ qDirty
  /\ questions' = SetQuestions(questions, FeedSnapshot(storeQuestions))
  /\ qDirty' = FALSE
  /\ UNCHANGED << boot, db, userId, displayName, isLoading, appState,
                  activeQuizCategory, userVerifications, error >>
  /\ UNCHANGED << qListeners, vListeners, vDirty, storeVars >>
  /\ reported' = NoReport
  /\ Render("feedDeliver", TRUE, quiz, timers)
  /\ UNCHANGED << passedQuizzes, firebaseConfig >>

\* onSnapshot(q, next, error): the listener ends; setError(...)
FeedError ==
  /\ \E uid \in qListeners : qListeners' = qListeners \ {uid}
  /\ qDirty' = (qDirty /\ qListeners' # {})
  /\ error' = FeedErrorMessage
  /\ UNCHANGED << boot, db, userId, displayName, isLoading, appState,
                  activeQuizCategory, questions, userVerifications >>
  /\ UNCHANGED << vListeners, vDirty, storeVars >>
  /\ reported' = NoReport
  /\ Render("app", FALSE, quiz, timers)
  /\ UNCHANGED << passedQuizzes, firebaseConfig >>

\* onSnapshot(vdoc, next): the document, or an empty record when it does not exist.
VerSnapshot(uid, d) ==
  IF d # NoDoc
  THEN << [id |-> uid, displayName |-> d.displayName,
           verifiedCategories |-> d.verifiedCategories] >>
  ELSE << [id |-> uid, verifiedCategories |-> <<>>] >>

VerDeliver ==
  /\ vDirty
  /\ \E uid \in vListeners : userVerifications' = VerSnapshot(uid, storeVer[uid])
  /\ vDirty' = FALSE
  /\ UNCHANGED << boot, db, userId, displayName, isLoading, appState,
                  activeQuizCategory, questions, error >>
  /\ UNCHANGED << qListeners, qDirty, vListeners, storeVars >>
  /\ reported' = NoReport
  /\ Render("verDeliver", TRUE, quiz, timers)
  /\ UNCHANGED << passedQuizzes, firebaseConfig >>

\* onSnapshot(vdoc, next, error): the listener ends; console.error only.
VerError ==
  /\ \E uid \in vListeners : vListeners' = vListeners \ {uid}
  /\ vDirty' = (vDirty /\ vListeners' # {})
  /\ UNCHANGED << boot, appVars >>
  /\ UNCHANGED << qListeners, qDirty, storeVars >>
  /\ reported' = NoReport
  /\ Render("app", FALSE, quiz, timers)
  /\ UNCHANGED << passedQuizzes, firebaseConfig >>

\* -------------------------------------------------------------- navigation
\* Header "Take Quiz": setAppState('quiz'); setActiveQuizCategory(null)
ClickTakeQuiz ==
  /\ UIShown
  /\ appState' = "quiz"
  /\ activeQuizCategory' = Null
  /\ UNCHANGED << boot, db, userId, displayName, isLoading, questions,
                  userVerifications, error >>
  /\ UNCHANGED << listenerVars, storeVars >>
  /\ reported' = NoReport
  /\ Render("app", FALSE, quiz, timers)
  /\ UNCHANGED << passedQuizzes, firebaseConfig >>

\* "Start Quiz" of one of the given categories that is not shown as VERIFIED:
\* setActiveQuizCategory(c)
StartQuiz(categories) ==
  /\ UIShown /\ appState = "quiz" /\ activeQuizCategory = Null
  /\ \E c \in categories :
       /\ ~Includes(CurrentUserVerifications(userVerifications, userId).verifiedCategories, c)
       /\ activeQuizCategory' = c
  /\ UNCHANGED << boot, db, userId, displayName, isLoading, appState, questions,
                  userVerifications, error >>
  /\ UNCHANGED << listenerVars, storeVars >>
  /\ reported' = NoReport
  /\ Render("app", FALSE, quiz, timers)
  /\ UNCHANGED << passedQuizzes, firebaseConfig >>

ClickStartQuiz == StartQuiz(QuizCategoryInputs)

\* "Back to Question Feed" of the category list: setAppState('feed')
ClickBackToFeed ==
  /\ UIShown /\ appState = "quiz" /\ activeQuizCategory = Null
  /\ appState' = "feed"
  /\ UNCHANGED << boot, db, userId, displayName, isLoading, activeQuizCategory,
                  questions, userVerifications, error >>
  /\ UNCHANGED << listenerVars, storeVars >>
  /\ reported' = NoReport
  /\ Render("app", FALSE, quiz, timers)
  /\ UNCHANGED << passedQuizzes, firebaseConfig >>

\* "Ask a Question" of the feed view: setAppState('post')
ClickAsk ==
  /\ UIShown /\ appState = "feed"
  /\ appState' = "post"
  /\ UNCHANGED << boot, db, userId, displayName, isLoading, activeQuizCategory,
                  questions, userVerifications, error >>
  /\ UNCHANGED << listenerVars, storeVars >>
  /\ reported' = NoReport
  /\ Render("app", FALSE, quiz, timers)
  /\ UNCHANGED << passedQuizzes, firebaseConfig >>

\* "Cancel" of the post form: setAppState('feed')
ClickCancelPost ==
  /\ UIShown /\ appState = "post"
  /\ appState' = "feed"
  /\ UNCHANGED << boot, db, userId, displayName, isLoading, activeQuizCategory,
                  questions, userVerifications, error >>
  /\ UNCHANGED << listenerVars, storeVars >>
  /\ reported' = NoReport
  /\ Render("app", FALSE, quiz, timers)
  /\ UNCHANGED << passedQuizzes, firebaseConfig >>

\* ------------------------------------------------------------------- posts
\* What handleSubmit and handlePostQuestion do with the form: "submitBlank" when the
\* trimmed title or body is empty, "submitNoIdentity" when handlePostQuestion returns at
\* its first line, "submit" when addDoc is called.
SubmitOutcome(title, body, category) ==
  IF ~(Trim(title) # <<>> /\ Trim(body) # <<>> /\ category # Null) THEN "submitBlank"
  ELSE IF ~db \/ userId = Null THEN "submitNoIdentity"
  ELSE "submit"

\* The document handed to addDoc (createdAt is set by the store).
PostOf(title, body, category) ==
  [ title |-> title, body |-> body, authorId |-> userId,
    category |-> category, status |-> "Open" ]

\* handleSubmit, then handlePostQuestion up to its await, for a form filled from the
\* given titles, bodies and categories, while fewer than maxPosts posts are stored or
\* pending.
Submit(titles, bodies, categories, maxPosts) ==
  /\ UIShown /\ appState = "post"
  /\ UNCHANGED << boot, appVars >>
  /\ UNCHANGED << listenerVars, storeQuestions, storeVer, pendingVerWrites, verIssued >>
  /\ reported' = NoReport
  /\ \E title \in titles, body \in bodies, category \in categories :
       /\ IF SubmitOutcome(title, body, category) = "submit"
          THEN /\ Len(storeQuestions) + Len(pendingPosts) < maxPosts
               /\ pendingPosts' = Append(pendingPosts, PostOf(title, body, category))
          ELSE pendingPosts' = pendingPosts
       /\ Render(SubmitOutcome(title, body, category), FALSE, quiz, timers)
  /\ UNCHANGED << passedQuizzes, firebaseConfig >>

HandleSubmit == Submit(Titles, Bodies, PostCategoryInputs, MaxPosts)

\* addDoc resolves: the document is stored with its server timestamp; setAppState('feed')
PostResolveOk ==
  /\ pendingPosts # <<>>
  /\ storeQuestions' = Append(storeQuestions,
       [ id |-> Len(storeQuestions) + 1, createdAt |-> Len(storeQuestions) + 1,
         title |-> Head(pendingPosts).title, body |-> Head(pendingPosts).body,
         authorId |-> Head(pendingPosts).authorId,
         category |-> Head(pendingPosts).category, status |-> Head(pendingPosts).status ])
  /\ pendingPosts' = Tail(pendingPosts)
  /\ qDirty' = (qListeners # {})
  /\ appState' = "feed"
  /\ UNCHANGED << boot, db, userId, displayName, isLoading, activeQuizCategory,
                  questions, userVerifications, error >>
  /\ UNCHANGED << qListeners, vListeners, vDirty, storeVer, pendingVerWrites, verIssued >>
  /\ reported' = NoReport
  /\ Render("app", FALSE, quiz, timers)
  /\ UNCHANGED << passedQuizzes, firebaseConfig >>

\* addDoc rejects: setError(...)
PostResolveFail ==
  /\ pendingPosts # <<>>
  /\ pendingPosts' = Tail(pendingPosts)
  /\ error' = PostErrorMessage
  /\ UNCHANGED << boot, db, userId, displayName, isLoading, appState,
                  activeQuizCategory, questions, userVerifications >>
  /\ UNCHANGED << listenerVars, storeQuestions, storeVer, pendingVerWrites, verIssued >>
  /\ reported' = NoReport
  /\ Render("app", FALSE, quiz, timers)
  /\ UNCHANGED << passedQuizzes, firebaseConfig >>

\* ------------------------------------------------------ ActiveQuiz handlers
\* The options the user clicks: the right one and one wrong one.
OptionInputs(question) ==
  { question.answer,
    IF question.options[1] # question.answer THEN question.options[1]
    ELSE question.options[2] }

\* handleAnswerSelect(option), option one of the current question's options.
HandleAnswerSelect ==
  /\ QuizShown /\ quiz # NoQuiz
  /\ UNCHANGED << boot, appVars >>
  /\ UNCHANGED << listenerVars, storeVars >>
  /\ reported' = NoReport
  /\ \E option \in OptionInputs(CurrentQuestion(quiz)) :
       IF AnswerSelectIgnored(quiz)
       THEN Render("selectIgnored", FALSE, quiz, timers)
       ELSE Render("select", FALSE, [quiz EXCEPT !.selectedOption = option], timers)
  /\ UNCHANGED << passedQuizzes, firebaseConfig >>

\* What the timer callback of handleNext closes over: the instance, whether the
\* question is the last, the score after it, and handleQuizComplete's view of App.
TimerOf(q) ==
  [ owner |-> "mounted", id |-> q.timerRef + 1,
    submits |-> Append(q.submits, q.currentQuestionIndex),
    isLast |-> IsLastQuestion(q),
    finalScore |-> FinalScore(q.score, IsCorrect(q)),
    category |-> q.category,
    total |-> TotalQuestions(QuizDataOf(q)),
    env |-> [ db |-> db, userId |-> userId, displayName |-> displayName,
              verifiedCategories |->
                CurrentUserVerifications(userVerifications, userId).verifiedCategories ] ]

\* handleNext: reveal, mark the advance pending, arm the 800 ms timer.
HandleNext ==
  /\ QuizShown /\ quiz # NoQuiz
  /\ UNCHANGED << boot, appVars >>
  /\ UNCHANGED << listenerVars, storeVars >>
  /\ reported' = NoReport
  /\ IF NextIgnored(quiz)
     THEN Render("nextIgnored", FALSE, quiz, timers)
     ELSE Render("next", FALSE,
                 [quiz EXCEPT !.showResult = TRUE, !.pendingAdvance = TRUE,
                              !.timerRef = @ + 1,
                              !.submits = Append(@, quiz.currentQuestionIndex)],
                 timers \cup {TimerOf(quiz)})
  /\ UNCHANGED << passedQuizzes, firebaseConfig >>

\* Mutant of Advanced: the index is not moved on.
AdvancedKeepsIndex(q, t) ==
  IF q # NoQuiz /\ t.owner = "mounted"
  THEN [q EXCEPT !.selectedOption = Null, !.showResult = FALSE,
                 !.score = t.finalScore, !.pendingAdvance = FALSE]
  ELSE q

\* The timer callback, not the last question: the setState calls of the else branch
\* (they do nothing once the instance is unmounted).
Advanced(q, t) ==
  IF q # NoQuiz /\ t.owner = "mounted"
  THEN [q EXCEPT !.currentQuestionIndex = @ + 1, !.selectedOption = Null,
                 !.showResult = FALSE, !.score = t.finalScore,
                 !.pendingAdvance = FALSE]
  ELSE q

TimerAdvance ==
  /\ UNCHANGED << boot, appVars >>
  /\ UNCHANGED << listenerVars, storeVars >>
  /\ reported' = NoReport
  /\ \E t \in timers :
       /\ ~t.isLast
       /\ Render("advance", FALSE, Advanced(quiz, t), timers \ {t})
  /\ UNCHANGED << passedQuizzes, firebaseConfig >>

\* The setDoc call of handleQuizComplete, as issued.
VerWriteOf(t) ==
  [ uid |-> t.env.userId, category |-> t.category, owner |-> t.owner,
    base |-> t.env.verifiedCategories,
    data |-> [ displayName |-> t.env.displayName,
               verifiedCategories |->
                 NewCategories(t.env.verifiedCategories, t.category) ] ]

\* The timer callback, last question: onComplete(category, finalScore, total), that is
\* setAppState('feed') and handleQuizComplete up to its await (or to its end).
TimerComplete ==
  /\ \E t \in timers :
       /\ t.isLast
       /\ appState' = "feed"
       /\ reported' = [ made |-> TRUE, owner |-> t.owner, submits |-> t.submits,
                        category |-> t.category, score |-> t.finalScore,
                        total |-> t.total, userId |-> t.env.userId,
                        verIssuedBefore |-> verIssued ]
       /\ IF ~t.env.db \/ t.env.userId = Null
          THEN UNCHANGED << activeQuizCategory, pendingVerWrites, verIssued >>
          ELSE IF Passed(t.finalScore, t.total)
               THEN /\ verIssued < MaxVerWrites
                    /\ pendingVerWrites' = Append(pendingVerWrites, VerWriteOf(t))
                    /\ verIssued' = verIssued + 1
                    /\ UNCHANGED activeQuizCategory
               ELSE /\ activeQuizCategory' = Null
                    /\ UNCHANGED << pendingVerWrites, verIssued >>
       /\ passedQuizzes' =
            IF t.env.db /\ t.env.userId # Null /\ Passed(t.finalScore, t.total)
            THEN [passedQuizzes EXCEPT ![t.env.userId] = @ \cup {t.category}]
            ELSE passedQuizzes
       /\ UNCHANGED << boot, db, userId, displayName, isLoading, questions,
                       userVerifications, error >>
       /\ UNCHANGED << listenerVars, storeQuestions, storeVer, pendingPosts >>
       /\ UNCHANGED firebaseConfig
       /\ Render("complete", FALSE, quiz, timers \ {t})

\* "Cancel Quiz": onComplete(null, null, null), that is setAppState('feed') only.
CancelQuiz ==
  /\ QuizShown /\ quiz # NoQuiz
  /\ appState' = "feed"
  /\ UNCHANGED << boot, db, userId, displayName, isLoading, activeQuizCategory,
                  questions, userVerifications, error >>
  /\ UNCHANGED << listenerVars, storeVars >>
  /\ reported' = NoReport
  /\ Render("cancel", FALSE, quiz, timers)
  /\ UNCHANGED << passedQuizzes, firebaseConfig >>

\* setDoc resolves: the document is merged in the store;
\* handleQuizComplete continues with setActiveQuizCategory(null).
VerWriteResolveOk ==
  /\ pendingVerWrites # <<>>
  /\ storeVer' = [storeVer EXCEPT ![Head(pendingVerWrites).uid] =
                    SetDocMerge(@, Head(pendingVerWrites).data)]
  /\ pendingVerWrites' = Tail(pendingVerWrites)
  /\ vDirty' = (vDirty \/ Head(pendingVerWrites).uid \in vListeners)
  /\ activeQuizCategory' = Null
  /\ UNCHANGED << boot, db, userId, displayName, isLoading, appState, questions,
                  userVerifications, error >>
  /\ UNCHANGED << qListeners, qDirty, vListeners, storeQuestions, pendingPosts, verIssued >>
  /\ reported' = NoReport
  /\ Render("app", FALSE, quiz, timers)
  /\ UNCHANGED << passedQuizzes, firebaseConfig >>

\* setDoc rejects: setError(...), then setActiveQuizCategory(null).
VerWriteResolveFail ==
  /\ pendingVerWrites # <<>>
  /\ pendingVerWrites' = Tail(pendingVerWrites)
  /\ error' = VerifyErrorMessage(Head(pendingVerWrites).category)
  /\ activeQuizCategory' = Null
  /\ UNCHANGED << boot, db, userId, displayName, isLoading, appState, questions,
                  userVerifications >>
  /\ UNCHANGED << listenerVars, storeQuestions, storeVer, pendingPosts, verIssued >>
  /\ reported' = NoReport
  /\ Render("app", FALSE, quiz, timers)
  /\ UNCHANGED << passedQuizzes, firebaseConfig >>

\* ----------------------------------------------------------- specification
Next ==
  \/ BootConfigMissing
  \/ BootInitError
  \/ BootInitOk
  \/ SignInFail
  \/ SignInOk
  \/ AuthNotify
  \/ FeedDeliver
  \/ FeedError
  \/ VerDeliver
  \/ VerError
  \/ ClickTakeQuiz
  \/ ClickStartQuiz
  \/ ClickBackToFeed
  \/ ClickAsk
  \/ ClickCancelPost
  \/ HandleSubmit
  \/ PostResolveOk
  \/ PostResolveFail
  \/ HandleAnswerSelect
  \/ HandleNext
  \/ TimerAdvance
  \/ TimerComplete
  \/ CancelQuiz
  \/ VerWriteResolveOk
  \/ VerWriteResolveFail

Spec == Init /\ [][Next]_vars

\* ------------------------------------------------------ feed specification
\* The posts and the feed alone, from the state the bootstrap leaves when the sign-in
\* succeeded and the auth observer reported user u1: both listeners attached, their
\* first snapshots not yet delivered.
SignedIn ==
  /\ firebaseConfig = RequiredKeys
  /\ boot = "observing"
  /\ db = TRUE
  /\ userId = "u1"
  /\ displayName = DisplayNameOf(CHOOSE u \in Users : u.uid = "u1")
  /\ isLoading = FALSE
  /\ appState = "feed"
  /\ activeQuizCategory = Null
  /\ questions = <<>>
  /\ userVerifications = <<>>
  /\ error = Null
  /\ qListeners = {"u1"}
  /\ qDirty = TRUE
  /\ vListeners = {"u1"}
  /\ vDirty = TRUE
  /\ storeQuestions = <<>>
  /\ storeVer = [u \in Uids |-> NoDoc]
  /\ pendingPosts = <<>>
  /\ pendingVerWrites = <<>>
  /\ verIssued = 0
  /\ quiz = NoQuiz
  /\ timers = {}
  /\ reported = NoReport
  /\ passedQuizzes = [u \in Uids |-> {}]
  /\ lastOp = [op |-> "app", cleared |-> {}]
  /\ appMounted = TRUE

\* handleSubmit in the feed specification.
FeedSubmit ==
  /\ Len(pendingPosts) < MaxPendingPosts
  /\ Submit(Titles, Bodies, PostCategoryInputs, MaxFeedPosts)

FeedNext ==
  \/ ClickAsk
  \/ ClickCancelPost
  \/ FeedSubmit
  \/ PostResolveOk
  \/ FeedDeliver

FeedSpec == SignedIn /\ [][FeedNext]_vars

\* -------------------------------------------------- listener specification
\* The bootstrap, the auth observer reporting either of two users or none, the two
\* listeners, and the way to the post form and back.
ListenerNotify == Notify(Users)

ListenerNext ==
  \/ BootInitOk
  \/ SignInOk
  \/ ListenerNotify
  \/ FeedDeliver
  \/ FeedError
  \/ VerDeliver
  \/ VerError
  \/ ClickAsk
  \/ ClickCancelPost

ListenerSpec == Init /\ [][ListenerNext]_vars

\* ---------------------------------------------------- answer specification
\* The whole of App, with the inputs that bring the Answer button about: the quiz of
\* one question is the one taken, and the posts are well-formed ones, in a category
\* without a quiz and in the category of that quiz.
AnswerQuizInputs == { "Financial Modeling" }

AnswerPostCategories == { "General", "Financial Modeling" }

AnswerStartQuiz == StartQuiz(AnswerQuizInputs)

AnswerSubmit == Submit({ << "t" >> }, { << "b" >> }, AnswerPostCategories, MaxPosts)

AnswerNext ==
  \/ BootConfigMissing
  \/ BootInitError
  \/ BootInitOk
  \/ SignInFail
  \/ SignInOk
  \/ AuthNotify
  \/ FeedDeliver
  \/ FeedError
  \/ VerDeliver
  \/ VerError
  \/ ClickTakeQuiz
  \/ AnswerStartQuiz
  \/ ClickBackToFeed
  \/ ClickAsk
  \/ ClickCancelPost
  \/ AnswerSubmit
  \/ PostResolveOk
  \/ PostResolveFail
  \/ HandleAnswerSelect
  \/ HandleNext
  \/ TimerComplete
  \/ CancelQuiz
  \/ VerWriteResolveOk
  \/ VerWriteResolveFail

AnswerSpec == Init /\ [][AnswerNext]_vars

\* ------------------------------------------------------------- properties
\* The shape of the state: ActiveQuiz is mounted exactly when the quiz is shown.
TypeOK ==
  /\ quiz.mounted = QuizShown
  /\ quiz.mounted =>
       /\ quiz.category \in Categories
       /\ quiz.currentQuestionIndex \in 0..(Len(QuizDataOf(quiz)) - 1)
  /\ verIssued \in 0..MaxVerWrites
  /\ Len(storeQuestions) + Len(pendingPosts) <= MaxPosts
  /\ db => boot # "start"
  /\ userId # Null => db

\* This step handed a completed quiz to handleQuizComplete and it issued a setDoc.
ReportWrote ==
  /\ reported.made
  /\ verIssued = reported.verIssuedBefore + 1
  /\ pendingVerWrites # <<>>
  /\ pendingVerWrites[Len(pendingVerWrites)].category = reported.category

\* C1: a quiz completing with (finalScore, total) while an identity is present issues a
\* verification write if and only if finalScore / total >= 0.70, that is
\* 10 * finalScore >= 7 * total; 2 of 3 issues none and 3 of 3 issues one.
C1_WriteIffPassed ==
  (reported.made /\ reported.userId # Null) =>
    /\ ReportWrote <=> (10 * reported.score >= 7 * reported.total)
    /\ (reported.total = 3 /\ reported.score = 2) => ~ReportWrote
    /\ (reported.total = 3 /\ reported.score = 3) => ReportWrote
    /\ ~ReportWrote => verIssued = reported.verIssuedBefore

\* C1, the boundary case: Physics completed 2 of 3 with an identity, and no write.
C1_Witness ==
  /\ reported.made /\ reported.userId # Null
  /\ reported.total = 3 /\ reported.score = 2
  /\ ~ReportWrote

\* C1, the passing case: Physics completed 3 of 3 with an identity, and a write.
C1_WitnessPass ==
  /\ reported.made /\ reported.userId # Null
  /\ reported.total = 3 /\ reported.score = 3
  /\ ReportWrote

\* C2: the persisted verifiedCategories of every user only grows: the set stored after
\* each write is a superset of the set stored before it.
C2_StoredOnlyGrows ==
  [][ \A u \in Uids :
        Elements(StoredCategories(storeVer[u]))
          \subseteq Elements(StoredCategories(storeVer'[u])) ]_vars

\* C3: a completed quiz reports 0 <= finalScore <= total with total the number of
\* questions the bank holds for the category, and during the quiz the running score
\* never exceeds the number of questions already resolved.
C3_ScoreWithinTotal ==
  /\ quiz.mounted =>
       /\ 0 <= quiz.score
       /\ quiz.score <= quiz.currentQuestionIndex
       /\ quiz.currentQuestionIndex < Len(QUIZ_DATA[quiz.category])
  /\ \A t \in timers :
       0 <= t.finalScore /\ t.finalScore <= Len(t.submits)
  /\ reported.made =>
       /\ 0 <= reported.score
       /\ reported.score <= reported.total
       /\ reported.total = Len(QUIZ_DATA[reported.category])

\* C3: Physics was completed with every answer right: finalScore = total = 3.
C3_Witness ==
  reported.made /\ reported.category = "Physics" /\ reported.score = 3 /\ reported.total = 3

\* The index sequence 0, 1, ..., n - 1.
IndicesUpTo(n) == [i \in 1..n |-> i - 1]

CancelStep == appState = "quiz" /\ quiz.mounted /\ lastOp'.op = "cancel"

\* C5: "Cancel Quiz" in any state of the session, the delay after the last submit
\* included, issues no verification write and reports nothing to the completion handler,
\* in that step or in any later one: no timer of a cancelled session stays armed, and no
\* report or write ever stems from one.
C5_CancelNeverWrites ==
  /\ [][ CancelStep =>
           /\ reported' = NoReport
           /\ pendingVerWrites' = pendingVerWrites
           /\ verIssued' = verIssued
           /\ storeVer' = storeVer
           /\ ~quiz'.mounted ]_vars
  /\ [](/\ \A t \in timers : t.owner # "cancelled"
        /\ reported.made => reported.owner # "cancelled"
        /\ \A i \in 1..Len(pendingVerWrites) : pendingVerWrites[i].owner # "cancelled")

\* C5: the quiz was cancelled during the delay after its last question was submitted
\* with a passing score.
C5_Witness ==
  /\ lastOp.op = "cancel"
  /\ \E t \in lastOp.cleared : t.isLast /\ Passed(t.finalScore, t.total)
  /\ ~quiz.mounted /\ timers = {}

\* The inputs of the user to a question: selecting an option, pressing Next.
AnswerInputs == { "select", "selectIgnored", "next", "nextIgnored" }

\* C6: once question i is submitted (reveal shown, advance pending), selecting an option
\* or pressing Next changes nothing of the session and arms no timer; there is never more
\* than one pending transition, and it is the one of the current question, so no question
\* is submitted twice.
C6_InputIgnoredAfterSubmit ==
  /\ [][ (quiz.mounted /\ quiz.showResult /\ lastOp'.op \in AnswerInputs) =>
           /\ quiz' = quiz
           /\ timers' = timers ]_vars
  /\ [](/\ Cardinality({ t \in timers : t.owner = "mounted" }) <= 1
        /\ quiz.mounted =>
             /\ NoDuplicates(quiz.submits)
             /\ quiz.showResult = quiz.pendingAdvance
             /\ quiz.pendingAdvance =>
                  /\ quiz.selectedOption # Null
                  /\ \E t \in timers :
                       /\ t.owner = "mounted" /\ t.id = quiz.timerRef
                       /\ t.submits = quiz.submits
                       /\ t.finalScore = FinalScore(quiz.score, IsCorrect(quiz)))

\* C6: an option was clicked during the delay after a submit, and was ignored.
C6_Witness ==
  /\ lastOp.op = "selectIgnored"
  /\ quiz.mounted /\ quiz.showResult /\ quiz.pendingAdvance

\* C6: Next was pressed again during the delay after a submit, and was ignored.
C6_WitnessNext ==
  /\ lastOp.op = "nextIgnored"
  /\ quiz.mounted /\ quiz.showResult /\ quiz.pendingAdvance

\* C7: a timer armed by a session that has since been cancelled or unmounted is not
\* armed any more: every armed timer belongs to the mounted instance, whose advance is
\* pending, and every report to the completion handler comes from the instance that was
\* mounted when its timer fired.
C7_TornDownTimerNeverFires ==
  /\ \A t \in timers :
       /\ t.owner = "mounted"
       /\ quiz.mounted /\ quiz.pendingAdvance /\ quiz.timerRef = t.id
  /\ reported.made => reported.owner = "mounted"
  /\ \A i \in 1..Len(pendingVerWrites) : pendingVerWrites[i].owner = "mounted"

\* C7: a render of App unmounted the session while its advance was pending, and the
\* cleanup cleared the timer.
C7_Witness ==
  /\ lastOp.op \in { "app", "feedDeliver", "verDeliver" }
  /\ lastOp.cleared # {}
  /\ \A t \in lastOp.cleared : t \notin timers

\* The state of the session that C8 names.
SessionState(q) ==
  << q.currentQuestionIndex, q.score, q.selectedOption, q.showResult, q.pendingAdvance >>

\* C8: a delivery on the questions listener or on the verification listener while a quiz
\* is in progress leaves the session's index, score, selection, revealed flag and pending
\* advance as they were.
C8_DeliveryKeepsSession ==
  [][ (quiz.mounted /\ lastOp'.op \in { "feedDeliver", "verDeliver" }) =>
        /\ quiz'.mounted
        /\ SessionState(quiz') = SessionState(quiz) ]_vars

\* The verifiedCategories arrays a client can hold: the lists of categories without
\* a duplicate.
CategoryLists ==
  { s \in UNION { [1..n -> Categories] : n \in 0..Cardinality(Categories) } :
      NoDuplicates(s) }

\* newCategories on every list a client can hold: no duplicate, the category is in it,
\* and merging a category the list already holds gives the list back.
NewCategoriesIdempotent ==
  \A existing \in CategoryLists : \A c \in Categories :
    /\ NoDuplicates(NewCategories(existing, c))
    /\ Includes(NewCategories(existing, c), c)
    /\ Includes(existing, c) => NewCategories(existing, c) = existing
    /\ NewCategories(NewCategories(existing, c), c) = NewCategories(existing, c)

\* C9: the set a passing completion writes has no duplicate and holds the category; when
\* the category is already in the verified set the merge starts from, the set written
\* is that set, unchanged. It holds of every setDoc issued, and of newCategories on every
\* list (a constant formula: it is evaluated once, in the initial state).
C9_MergeIdempotent ==
  /\ boot = "start" => NewCategoriesIdempotent
  /\ \A i \in 1..Len(pendingVerWrites) :
       LET w == pendingVerWrites[i] IN
         /\ NoDuplicates(w.data.verifiedCategories)
         /\ Includes(w.data.verifiedCategories, w.category)
         /\ Includes(w.base, w.category) => w.data.verifiedCategories = w.base

\* C9: a setDoc was issued by a passing completion for a category that the client's
\* verified set already held.
C9_Witness ==
  \E i \in 1..Len(pendingVerWrites) :
    /\ Includes(pendingVerWrites[i].base, pendingVerWrites[i].category)
    /\ pendingVerWrites[i].data.verifiedCategories = pendingVerWrites[i].base

\* C10: a completion below the threshold issues no verification write, leaves the stored
\* verified set and the error as they were, and ends the session: activeQuizCategory
\* becomes null.
C10_FailedAttemptEndsSession ==
  [][ (reported'.made /\ ~(10 * reported'.score >= 7 * reported'.total)) =>
        /\ verIssued' = verIssued
        /\ pendingVerWrites' = pendingVerWrites
        /\ storeVer' = storeVer
        /\ error' = error
        /\ activeQuizCategory' = Null ]_vars

\* C10 with an identity: the same, for the completions that handleQuizComplete does not
\* leave at its first line.
FailedAttemptWithIdentity ==
  [][ (reported'.made /\ reported'.userId # Null
         /\ ~(10 * reported'.score >= 7 * reported'.total)) =>
        /\ verIssued' = verIssued
        /\ pendingVerWrites' = pendingVerWrites
        /\ storeVer' = storeVer
        /\ error' = error
        /\ activeQuizCategory' = Null ]_vars

\* This step took the head of the pending setDoc calls without merging it into the
\* store: the write was rejected.
VerWriteRejected ==
  /\ pendingVerWrites # <<>>
  /\ pendingVerWrites' = Tail(pendingVerWrites)
  /\ storeVer'[Head(pendingVerWrites).uid] #
       SetDocMerge(storeVer[Head(pendingVerWrites).uid], Head(pendingVerWrites).data)

\* A rejected setDoc sets the error that names the category and ends the session.
WriteFailureSignalled ==
  [][ VerWriteRejected =>
        /\ error' = VerifyErrorMessage(Head(pendingVerWrites).category)
        /\ activeQuizCategory' = Null ]_vars

\* C11: a completion while userId is null, and a rejected verification write, each set
\* an error, which a failed attempt does not, and each end the session:
\* activeQuizCategory becomes null.
C11_NoIdentityOrWriteFailure ==
  [][ /\ (reported'.made /\ reported'.userId = Null) =>
           /\ error' # Null
           /\ activeQuizCategory' = Null
      /\ VerWriteRejected =>
           /\ error' = VerifyErrorMessage(Head(pendingVerWrites).category)
           /\ activeQuizCategory' = Null ]_vars

\* This step is the error callback of the questions listener: the listener ends while
\* db and userId stay as they were.
FeedListenerFailed ==
  qListeners' # qListeners /\ qListeners' \subseteq qListeners /\ db' = db /\ userId' = userId

\* This step is the error callback of the verification listener.
VerListenerFailed ==
  vListeners' # vListeners /\ vListeners' \subseteq vListeners /\ db' = db /\ userId' = userId

\* This step took the head of the pending addDoc calls without storing it: the write
\* was rejected.
PostRejected ==
  /\ pendingPosts # <<>>
  /\ pendingPosts' = Tail(pendingPosts)
  /\ storeQuestions' = storeQuestions

\* C12: an error of either listener and a rejected write (addDoc, setDoc) leave the
\* fatal error null when it was null, so the views stay shown and the action can be
\* taken again.
C12_ListenerAndWriteErrorsNotFatal ==
  [][ ((FeedListenerFailed \/ VerListenerFailed \/ PostRejected \/ VerWriteRejected)
         /\ error = Null) =>
        /\ error' = Null
        /\ UIShown => UIShown' ]_vars

\* Of the four, only the error of the verification listener leaves the fatal error null.
VerListenerErrorNotFatal ==
  [][ (VerListenerFailed /\ error = Null) => error' = Null ]_vars

\* This step is a submit of the post form with the given outcome.
SubmitStep(outcome) == lastOp'.op = outcome /\ lastOp.op # outcome /\ appState = "post"

\* C13: each failure, met while no error is shown, changes some state the user can see
\* (a value of App's state): an
\* error of the questions listener, an error of the verification listener, a rejected
\* addDoc, a rejected setDoc, a post submitted without an identity and a quiz completed
\* without an identity.
C13_EveryFailureObservable ==
  [][ (/\ error = Null
       /\ \/ FeedListenerFailed
          \/ VerListenerFailed
          \/ PostRejected
          \/ VerWriteRejected
          \/ SubmitStep("submitNoIdentity")
          \/ (reported'.made /\ reported'.userId = Null)) =>
        appVars' # appVars ]_vars

\* The failures that do set the error: the questions listener and the two writes.
SignalledFailures ==
  [][ (error = Null /\ (FeedListenerFailed \/ PostRejected \/ VerWriteRejected)) =>
        (error' # Null /\ appVars' # appVars) ]_vars

\* C13, the post without an identity: such a submit changes some value of App's state.
C13_SilentSubmit ==
  [][ SubmitStep("submitNoIdentity") => appVars' # appVars ]_vars

\* One completed quiz issues at most one setDoc: setDoc is called only in the step
\* that hands a completion to handleQuizComplete, and once.
OneWritePerCompletion ==
  [][ /\ verIssued' # verIssued =>
           (reported'.made /\ verIssued' = verIssued + 1)
      /\ Len(pendingVerWrites') > Len(pendingVerWrites) =>
           (reported'.made /\ Len(pendingVerWrites') = Len(pendingVerWrites) + 1) ]_vars

\* C14: while the addDoc of a posted question is pending, a submit of the form issues no
\* second addDoc; and a completed quiz issues at most one setDoc.
C14_NoSecondWriteWhilePending ==
  [][ /\ pendingPosts # <<>> => Len(pendingPosts') <= Len(pendingPosts)
      /\ verIssued' # verIssued =>
           (reported'.made /\ verIssued' = verIssued + 1) ]_vars

\* A string with a character that is not a space.
NonBlank(s) == \E i \in 1..Len(s) : s[i] # " "

\* C15: a submit whose title or body is empty or only spaces calls no addDoc and leaves
\* the post form shown; every addDoc called, pending or stored, carries a title and a
\* body with a character other than a space and status Open, and its authorId is the
\* userId of the moment it was called.
C15_BlankPostRejected ==
  /\ [][ /\ SubmitStep("submitBlank") =>
              /\ pendingPosts' = pendingPosts
              /\ storeQuestions' = storeQuestions
              /\ appState' = "post"
         /\ Len(pendingPosts') > Len(pendingPosts) =>
              /\ userId # Null
              /\ pendingPosts'[Len(pendingPosts')].authorId = userId ]_vars
  /\ [](/\ \A i \in 1..Len(pendingPosts) :
             /\ NonBlank(pendingPosts[i].title) /\ NonBlank(pendingPosts[i].body)
             /\ pendingPosts[i].authorId \in Uids
             /\ pendingPosts[i].status = "Open"
        /\ \A i \in 1..Len(storeQuestions) :
             /\ NonBlank(storeQuestions[i].title) /\ NonBlank(storeQuestions[i].body)
             /\ storeQuestions[i].authorId \in Uids
             /\ storeQuestions[i].status = "Open")

\* C15: the form was submitted with an empty or blank title or body: it is still shown
\* and nothing was written.
C15_Witness ==
  /\ lastOp.op = "submitBlank"
  /\ UIShown /\ appState = "post"
  /\ pendingPosts = <<>> /\ storeQuestions = <<>>

\* C15: a post with a title and a body was submitted and its addDoc is pending.
C15_WitnessAccepted ==
  lastOp.op = "submit" /\ Len(pendingPosts) = 1

\* The feed shows a card of category c with the Answer button.
AnswerOffered(c) ==
  /\ UIShown /\ appState = "feed"
  /\ \E i \in 1..Len(questions) :
       questions[i].category = c /\ IsExpert(questions[i])

\* C16: the Answer button is shown to the current user on a question of category c only
\* if c has a quiz and that user has earlier completed the quiz of c with a passing
\* ratio; it is never shown on a question of General.
C16_AnswerOnlyAfterPassing ==
  /\ \A c \in PostCategories :
       AnswerOffered(c) =>
         /\ c \in Categories
         /\ userId # Null
         /\ c \in passedQuizzes[userId]
  /\ ~AnswerOffered("General")

\* C16: the feed shows a question of Financial Modeling with the Answer button, to a
\* user whose stored verified set holds the category.
C16_Witness ==
  /\ AnswerOffered("Financial Modeling")
  /\ Includes(StoredCategories(storeVer[userId]), "Financial Modeling")

\* C16: the feed shows a question of General, without the button, to a verified user.
C16_WitnessGeneral ==
  /\ UIShown /\ appState = "feed"
  /\ \E i \in 1..Len(questions) :
       questions[i].category = "General" /\ ~IsExpert(questions[i])
  /\ userId # Null /\ passedQuizzes[userId] # {}

\* The smaller of two numbers.
Min(a, b) == IF a <= b THEN a ELSE b

\* The questions listener is attached and has delivered its latest snapshot.
FeedCaughtUp == qListeners # {} /\ ~qDirty

\* C17: once the deliveries have caught up, the feed view lists stored questions only, in
\* descending creation order, and holds the FEED_LIMIT most recent ones: all of them
\* while there are at most FEED_LIMIT, and otherwise none older than one it leaves out.
C17_FeedNewestFirst ==
  FeedCaughtUp =>
    /\ Len(questions) = Min(Len(storeQuestions), FEED_LIMIT)
    /\ \A i \in 1..Len(questions) :
         \E k \in 1..Len(storeQuestions) : storeQuestions[k] = questions[i]
    /\ \A i, j \in 1..Len(questions) :
         i < j => questions[i].createdAt > questions[j].createdAt
    /\ \A k \in 1..Len(storeQuestions) :
         (\A i \in 1..Len(questions) : questions[i] # storeQuestions[k]) =>
           \A i \in 1..Len(questions) :
             storeQuestions[k].createdAt < questions[i].createdAt

\* C17: three questions were posted at times 1 < 2 < 3 and the view lists them 3, 2, 1.
C17_Witness ==
  /\ FeedCaughtUp
  /\ Len(storeQuestions) = 3
  /\ Len(questions) = 3
  /\ questions[1].createdAt = 3 /\ questions[2].createdAt = 2 /\ questions[3].createdAt = 1

\* C17: one question more than FEED_LIMIT was posted and the view leaves the oldest out.
C17_WitnessTruncated ==
  /\ FeedCaughtUp
  /\ Len(storeQuestions) = FEED_LIMIT + 1
  /\ Len(questions) = FEED_LIMIT
  /\ questions[1].createdAt = FEED_LIMIT + 1
  /\ questions[FEED_LIMIT].createdAt = 2

\* C18: a listener of either feed is alive only while db and userId are set, and for that
\* userId; when userId changes or becomes null no listener of the previous userId is left;
\* and each feed has at most one listener alive.
C18_ListenersFollowIdentity ==
  /\ [](/\ \A uid \in qListeners \cup vListeners : db /\ userId # Null /\ uid = userId
        /\ Cardinality(qListeners) <= 1
        /\ Cardinality(vListeners) <= 1)
  /\ [][ userId' # userId =>
           /\ userId \notin qListeners' \cup vListeners'
           /\ userId' # Null => (qListeners' = {userId'} /\ vListeners' = {userId'})
           /\ userId' = Null => (qListeners' = {} /\ vListeners' = {}) ]_vars

\* C18: the identity went from u1, whose verification document the view still holds, to
\* u2, and both listeners are u2's.
C18_Witness ==
  /\ userId = "u2"
  /\ qListeners = {"u2"} /\ vListeners = {"u2"}
  /\ userVerifications # <<>> /\ userVerifications[1].id = "u1"

\* C18: the identity became unavailable after its listeners had delivered, and no
\* listener is alive.
C18_WitnessSignedOut ==
  /\ userId = Null /\ boot = "observing"
  /\ userVerifications # <<>>
  /\ qListeners = {} /\ vListeners = {}

\* The message that names the given keys: the text of the source around the names.
NamesKeys(keys) ==
  "Firebase config missing: "
    \o (IF "apiKey" \in keys THEN "apiKey" ELSE "")
    \o (IF "apiKey" \in keys /\ keys # {"apiKey"} THEN ", " ELSE "")
    \o (IF "projectId" \in keys THEN "projectId" ELSE "")
    \o (IF "projectId" \in keys /\ "appId" \in keys THEN ", " ELSE "")
    \o (IF "appId" \in keys THEN "appId" ELSE "")
    \o ". Check your .env and restart the dev server."

\* C19: with a required setting missing, the bootstrap never gets past its validation:
\* no Firestore handle is set, no sign-in is started, no identity is established, no
\* listener is attached; and once the bootstrap has run the error names exactly the
\* missing settings.
C19_MissingConfigBlocksStartup ==
  firebaseConfig # RequiredKeys =>
    /\ boot \in { "start", "halted" }
    /\ ~db /\ userId = Null /\ displayName = Null
    /\ qListeners = {} /\ vListeners = {}
    /\ boot = "start" => (error = Null /\ isLoading)
    /\ boot = "halted" =>
         (error = NamesKeys(RequiredKeys \ firebaseConfig) /\ ~isLoading)

\* C19: apiKey and appId are missing and the error names the two.
C19_Witness ==
  /\ firebaseConfig = {"projectId"}
  /\ boot = "halted"
  /\ error =
       "Firebase config missing: apiKey, appId. Check your .env and restart the dev server."

\* The screen of the current state.
Screen == ScreenOf(isLoading, error, appState)

\* The precedence of the render, on every loading flag, error and selector (a constant
\* formula).
RenderPrecedence ==
  \A loading \in BOOLEAN, err \in { Null, FeedErrorMessage }, view \in Views :
    /\ loading => ScreenOf(loading, err, view) = "loading"
    /\ (~loading /\ err # Null) => ScreenOf(loading, err, view) = "error"
    /\ (~loading /\ err = Null) => ScreenOf(loading, err, view) = view

\* C20: the screen is the loading screen while loading, else the error screen while an
\* error is set, else the view the selector names; the quiz is mounted only when its
\* view is the screen; and the buttons and the form of a view act only when that view is
\* the screen, so none acts on the loading or the error screen.
C20_RenderPrecedence ==
  /\ [](/\ boot = "start" => RenderPrecedence
        /\ appState \in Views
        /\ isLoading => Screen = "loading"
        /\ (~isLoading /\ error # Null) => Screen = "error"
        /\ (~isLoading /\ error = Null) => Screen = appState
        /\ quiz.mounted => Screen = "quiz"
        /\ timers # {} => Screen = "quiz")
  /\ [][ /\ (appState' # appState /\ ~reported'.made /\ storeQuestions' = storeQuestions) =>
              /\ Screen \in Views
              /\ appState' = "post" => Screen = "feed"
              /\ (appState' = "feed" /\ lastOp'.op # "cancel") => Screen \in { "post", "quiz" }
              /\ lastOp'.op = "cancel" => Screen = "quiz"
         /\ (activeQuizCategory' # activeQuizCategory /\ activeQuizCategory' # Null) =>
              Screen = "quiz"
         /\ Len(pendingPosts') > Len(pendingPosts) => Screen = "post"
         /\ SubmitStep("submitBlank") => Screen = "post"
         /\ (quiz.mounted /\ quiz'.mounted /\ quiz' # quiz) => Screen = "quiz" ]_vars

\* C20: an error was set while the quiz view was selected: the error screen is shown and
\* the quiz is unmounted.
C20_Witness ==
  /\ ~isLoading /\ error # Null /\ appState = "quiz" /\ activeQuizCategory # Null
  /\ Screen = "error" /\ ~quiz.mounted

\* C21: once the error is set no step clears it, whatever the step is (an auth
\* notification, a delivery, the result of a write, a click); and a bootstrap stopped by
\* a missing setting or by a failed sign-in has set it.
C21_ErrorSticky ==
  /\ [][ /\ error # Null => error' # Null
         /\ (boot = "start" /\ boot' = "halted" /\ firebaseConfig # RequiredKeys) =>
              (error = Null /\ error' # Null)
         /\ (boot = "signingIn" /\ boot' = "halted") =>
              (error = Null /\ error' # Null) ]_vars
  /\ [](boot = "halted" => error # Null)

\* C21: the error of the questions listener was set, and a verification snapshot
\* delivered after it has left it set.
C21_Witness ==
  /\ error = FeedErrorMessage
  /\ lastOp.op = "verDeliver"

\* C21: the sign-in failed with a code the bootstrap has no message for, and the error
\* is set.
C21_WitnessSignIn ==
  /\ boot = "halted" /\ db
  /\ error = "Auth error: auth/network-request-failed"

\* This step is a delivery of the questions listener: a listener that stays attached
\* hands over the snapshot it had to deliver.
FeedDeliveryStep == qDirty /\ ~qDirty' /\ qListeners # {} /\ qListeners' = qListeners

\* The stored questions from the newest to the oldest, the first FEED_LIMIT of them.
NewestFirst(store) ==
  [ i \in 1..Min(Len(store), FEED_LIMIT) |-> store[Len(store) + 1 - i] ]

\* C22: only a delivery of the questions listener changes the question list, and after a
\* delivery the list is the delivered snapshot, in its order, with nothing of the list
\* before it kept or merged.
C22_FeedReplacedWholesale ==
  [][ /\ questions' # questions => FeedDeliveryStep
      /\ FeedDeliveryStep => questions' = NewestFirst(storeQuestions) ]_vars

\* C22: a delivery replaced a full list by the snapshot that leaves its oldest question
\* out.
C22_Witness ==
  /\ lastOp.op = "feedDeliver" /\ ~qDirty
  /\ Len(storeQuestions) = FEED_LIMIT + 1
  /\ Len(questions) = FEED_LIMIT
  /\ \A i \in 1..Len(questions) : questions[i] # storeQuestions[1]
  /\ questions[1] = storeQuestions[FEED_LIMIT + 1]

\* ------------------------------------------------- bootstrap specification
\* The bootstrap effect on each of its paths, with the listeners and the views that
\* follow it.  The effect runs once App is mounted, the sign-in promise settles, and
\* the observer attached by onAuthStateChanged is called with the initial identity.
BootNext ==
  \/ BootConfigMissing
  \/ BootInitError
  \/ BootInitOk
  \/ SignInFail
  \/ SignInOk
  \/ ListenerNotify
  \/ FeedDeliver
  \/ FeedError
  \/ VerDeliver
  \/ VerError
  \/ ClickAsk
  \/ ClickCancelPost

BootSpec ==
  /\ Init
  /\ [][BootNext]_vars
  /\ WF_vars(BootConfigMissing \/ BootInitError \/ BootInitOk)
  /\ WF_vars(SignInFail \/ SignInOk)
  /\ WF_vars(isLoading /\ ListenerNotify)

\* C23: on every path of the bootstrap the loading flag becomes false: it is false
\* wherever the bootstrap has stopped and after the first identity notification, and
\* once false it is never true again.
C23_LoadingEnds ==
  /\ <>(~isLoading)
  /\ [](boot = "halted" => ~isLoading)
  /\ [][boot = "observing" /\ userId' # userId => ~isLoading']_vars
  /\ [][~isLoading => ~isLoading']_vars

\* C23: the first identity notification came without a user and ended the loading.
C23_Witness ==
  /\ boot = "observing" /\ ~isLoading /\ userId = Null /\ error = Null

\* The loading ended by an exception during initialisation.
C23_WitnessInitError ==
  /\ boot = "halted" /\ ~isLoading /\ ~db /\ firebaseConfig = RequiredKeys

\* ------------------------------------------------- teardown specification
\* The observer that onAuthStateChanged attached is attached until unsub() is called.
AuthObserverAttached == boot = "observing"

\* App is unmounted after the bootstrap has ended: React calls the cleanup that each
\* effect returned.  The listeners effect returned one, which calls unsubQuestions()
\* and unsubVer().  The bootstrap effect returned none: its callback calls an async
\* function and returns nothing, and the `return () => unsub()` is the value that the
\* promise of that async function resolves to, which nothing reads.
Teardown ==
  /\ appMounted
  /\ boot \in { "observing", "halted" }
  /\ appMounted' = FALSE
  /\ qListeners' = ListenersCleanup(qListeners)
  /\ vListeners' = ListenersCleanup(vListeners)
  /\ qDirty' = FALSE
  /\ vDirty' = FALSE
  /\ quiz' = NoQuiz
  /\ timers' = UnmountCleanup(quiz, timers, "unmounted")
  /\ lastOp' = [op |-> "teardown",
                cleared |-> { t \in timers : t.owner = "mounted" /\ t \notin timers' }]
  /\ reported' = NoReport
  /\ UNCHANGED appVars
  /\ UNCHANGED << boot, storeVars, passedQuizzes, firebaseConfig >>

\* The onAuthStateChanged callback called after App was unmounted: it calls setUserId,
\* setDisplayName and setIsLoading of the unmounted component, which React discards.
NotifyTornDown ==
  /\ ~appMounted
  /\ AuthObserverAttached
  /\ \E user \in Users \cup {NoUser} : lastOp' = [op |-> "notifyTornDown", cleared |-> {}]
  /\ reported' = NoReport
  /\ UNCHANGED appVars
  /\ UNCHANGED << boot, listenerVars, storeVars, quiz, timers, passedQuizzes,
                  firebaseConfig, appMounted >>

TeardownNext ==
  \/ BootConfigMissing
  \/ BootInitError
  \/ BootInitOk
  \/ SignInFail
  \/ SignInOk
  \/ ListenerNotify
  \/ FeedDeliver
  \/ FeedError
  \/ VerDeliver
  \/ VerError
  \/ ClickAsk
  \/ ClickCancelPost
  \/ Teardown
  \/ NotifyTornDown

TeardownSpec == Init /\ [][TeardownNext]_vars

\* C24: once App is torn down the identity observer is released: it is not attached,
\* its callback is not called, and the identity, the display name and the loading flag
\* do not change.
C24_ObserverReleased ==
  /\ [](~appMounted => ~AuthObserverAttached)
  /\ [](~appMounted => lastOp.op # "notifyTornDown")
  /\ [][~appMounted => UNCHANGED << userId, displayName, isLoading >>]_vars

\* After the teardown nothing changes the identity, the display name or the loading
\* flag that App held.
TornDownStateKept ==
  [][~appMounted => UNCHANGED << userId, displayName, isLoading >>]_vars

\* After the teardown the listeners of both feeds are released.
TornDownListenersReleased ==
  ~appMounted => qListeners = {} /\ vListeners = {}

\* This step is the resolution of a verification write, with a quiz session on screen
\* that began while the write was pending.
VerWriteResolvesDuringSession ==
  /\ Len(pendingVerWrites') < Len(pendingVerWrites)
  /\ QuizShown

\* C25: when a verification write resolves while a later quiz session is on screen,
\* the session's category, question index and score are what they were before.
C25_ResolveKeepsLaterSession ==
  [][VerWriteResolvesDuringSession =>
       /\ activeQuizCategory' = activeQuizCategory
       /\ QuizShown'
       /\ quiz'.currentQuestionIndex = quiz.currentQuestionIndex
       /\ quiz'.score = quiz.score]_vars

\* ------------------------------------------------- identity specification
\* The quiz of one question taken under an identity that changes between the users and
\* none, with the verification listener and the verification writes.
IdentityNext ==
  \/ BootInitOk
  \/ SignInOk
  \/ ListenerNotify
  \/ VerDeliver
  \/ VerError
  \/ ClickTakeQuiz
  \/ AnswerStartQuiz
  \/ ClickBackToFeed
  \/ HandleAnswerSelect
  \/ HandleNext
  \/ TimerComplete
  \/ CancelQuiz
  \/ VerWriteResolveOk
  \/ VerWriteResolveFail

IdentitySpec == Init /\ [][IdentityNext]_vars

\* The verified categories that the Answer button, the VERIFIED label, the badge and
\* handleQuizComplete read in the current render.
GatingView == CurrentUserVerifications(userVerifications, userId).verifiedCategories

\* C26: the verified categories used for gating are those of a held record whose id is
\* the current userId, or none; with no identity they are none; and neither they nor
\* the categories of a write to a user's record hold a category whose quiz another
\* identity passed and that user did not.
C26_ViewOfCurrentIdentity ==
  /\ \/ GatingView = <<>>
     \/ \E i \in 1..Len(userVerifications) :
          /\ userVerifications[i].id = userId
          /\ userVerifications[i].verifiedCategories = GatingView
  /\ userId = Null => GatingView = <<>>
  /\ userId # Null => Elements(GatingView) \subseteq passedQuizzes[userId]
  /\ \A i \in 1..Len(pendingVerWrites) :
       Elements(pendingVerWrites[i].data.verifiedCategories)
         \subseteq passedQuizzes[pendingVerWrites[i].uid]
  /\ \A u \in Uids : Elements(StoredCategories(storeVer[u])) \subseteq passedQuizzes[u]

\* C26: the identity changed from u1, whose delivered record with a verified category
\* is still held, to u2, and the view used for gating holds no category.
C26_Witness ==
  /\ userId = "u2"
  /\ userVerifications # <<>>
  /\ userVerifications[1].id = "u1"
  /\ userVerifications[1].verifiedCategories = << "Financial Modeling" >>
  /\ GatingView = <<>>
  /\ appState = "quiz" /\ activeQuizCategory = Null

\* The identity was lost while the record of u1 is held.
C26_WitnessLost ==
  /\ userId = Null
  /\ userVerifications # <<>>
  /\ userVerifications[1].verifiedCategories = << "Financial Modeling" >>

\* u2 completes the quiz with a passing score after u1 did: the write to the record of
\* u2 is made of what u2 passed.
C26_WitnessUnion ==
  /\ passedQuizzes["u1"] # {}
  /\ pendingVerWrites # <<>>
  /\ pendingVerWrites[1].uid = "u2"

\* C27: whenever the view selector is Feed or Post there is no active quiz category.
C27_SessionOnlyInQuizView ==
  appState \in { "feed", "post" } => activeQuizCategory = Null

\* After "Cancel Quiz" the feed is shown and the quiz category is still active.
CancelledSessionKept ==
  lastOp.op = "cancel" /\ appState = "feed" /\ activeQuizCategory # Null

\* After a passing completion, while its write is pending, the post form is shown and
\* the quiz category is still active.
CompletedSessionKept ==
  pendingVerWrites # <<>> /\ appState = "post" /\ activeQuizCategory # Null

=============================================================================
